---- MODULE Spec2Model ----
(***************************************************************************)
(* State-machine model of the life-goals dashboard                         *)
(* (src/workspace/life-goals-dashboard/src/App.tsx).                       *)
(*                                                                         *)
(* The state is the React state and refs of App (goals, editing,           *)
(* isModalOpen, undoOpen, undoTimerRef, lastToggledRef), the browser's     *)
(* pending timeouts, the localStorage entry under STORAGE_KEY and the      *)
(* wall clock.  One action models one event handler, including the         *)
(* useEffect that saves the goal list after every setGoals.                *)
(*                                                                         *)
(* Text is a sequence of one-character strings, so that trim() is a real   *)
(* computation.  Handlers are modelled at the level of the handler         *)
(* functions: handleUndo may run whenever it is called (the Toast button   *)
(* that calls it stays mounted until React commits setUndoOpen(false)),    *)
(* and the cards behind the open modal stay reachable by keyboard.  A      *)
(* handler that returns early changes nothing, so its early return is the  *)
(* negation of the action's guard.                                         *)
(*                                                                         *)
(* Every Date.now() returns a later instant than the one before; instants  *)
(* 1 and below belong to earlier sessions.  setTimeout handles are reused  *)
(* once their timeout is no longer pending.                                *)
(*                                                                         *)
(* Six specifications share the handlers:                                  *)
(*   Spec       the handlers over a stored list of two goals, with form    *)
(*              inputs that pass validation and a store that accepts       *)
(*              every write; the view stays at its defaults (All, Newest), *)
(*              under which every goal has a card;                         *)
(*   SpecForm   the form submitted with every kind of title, deadline and  *)
(*              steps value;                                               *)
(*   SpecStore  every kind of storage entry, rejected writes and reloads;  *)
(*   SpecView   the handlers with the filter buttons and the sort select;  *)
(*   SpecSort   the derived view over every small stored list;             *)
(*   SpecLive   the handlers over one stored goal, where a pending timeout *)
(*              eventually runs its callback.                              *)
(***************************************************************************)
EXTENDS Integers, Sequences, FiniteSets, TLC

VARIABLES
    goals,           \* useGoalsState: the goal list (App.tsx:142)
    editing,         \* useState<Goal | null> (App.tsx:322)
    isModalOpen,     \* useState(false) (App.tsx:321)
    undoOpen,        \* useState(false) (App.tsx:323)
    undoTimerRef,    \* useRef<number | null> (App.tsx:324)
    lastToggledRef,  \* useRef<Goal | null> (App.tsx:325)
    timers,          \* the browser's pending timeouts scheduled at App.tsx:383
    storage,         \* localStorage entry under STORAGE_KEY
    now,             \* the value the next Date.now() returns
    nextId,          \* the id the next uuidv4() returns
    filter,          \* useState<FilterKey>('all') (App.tsx:319)
    sortBy           \* useState<SortKey>('created-desc') (App.tsx:320)

vars == <<goals, editing, isModalOpen, undoOpen, undoTimerRef, lastToggledRef,
          timers, storage, now, nextId, filter, sortBy>>

(* Bounds of the model: the last instant Date.now() may return, and the     *)
(* number of timeout handles.                                               *)

MaxNow == 2
MaxTimers == 2

TimerIds == 1..MaxTimers

(* Form inputs explored by the main specification, in which the store       *)
(* accepts every write.  A steps input is a number counted in halves.       *)
TitleInputs == { <<" ", "a", " ">> }
DescriptionInputs == { <<"d", " ">> }
DeadlineInputs == { [kind |-> "date", day |-> 1] }
PriorityInputs == { "High" }
StepsInputs == { [kind |-> "num", halves |-> 4] }
WriteOutcomes == { TRUE }

(* Values *)

Null == [null |-> TRUE]
Undefined == 0
NoTimer == 0
Priority == { "Low", "Medium", "High" }

Whitespace == { " ", "\t", "\n" }

RECURSIVE TrimStart(_)
TrimStart(s) ==
    IF s # <<>> /\ Head(s) \in Whitespace THEN TrimStart(Tail(s)) ELSE s

RECURSIVE TrimEnd(_)
TrimEnd(s) ==
    IF s # <<>> /\ s[Len(s)] \in Whitespace
    THEN TrimEnd(SubSeq(s, 1, Len(s) - 1))
    ELSE s

Trim(s) == TrimEnd(TrimStart(s))

(* new Date(deadline): a date-input string or an ISO string parses to the  *)
(* instant of that day; the empty string gives an Invalid Date.            *)
IsValidDate(d) == d.kind \in { "date", "iso" }

(* new Date(deadline).toISOString() *)
ToISOString(d) == [kind |-> "iso", day |-> d.day]

(* Math.round of a number given in halves: round half up. *)
MathRound(halves) == (halves + 1) \div 2

(* Mutant: the rounded number is stored without Math.max(1, ...). *)
CoerceStepsNoFloor(s) ==
    IF s.kind = "nan" \/ s.halves = 0 THEN 1 ELSE MathRound(s.halves)

(* Math.max(1, Math.round(Number(steps) || 1)); NaN and 0 are falsy. *)
CoerceSteps(s) ==
    LET n == IF s.kind = "nan" \/ s.halves = 0 THEN 1 ELSE MathRound(s.halves)
    IN  IF n > 1 THEN n ELSE 1

(* JSON.stringify drops a property whose value is undefined. *)
JsonOfGoal(g) ==
    IF g.completedAt = Undefined
    THEN [id |-> g.id, title |-> g.title, description |-> g.description,
          deadline |-> g.deadline, priority |-> g.priority, steps |-> g.steps,
          completedSteps |-> g.completedSteps, completed |-> g.completed,
          createdAt |-> g.createdAt]
    ELSE g

(* Reading a property that JSON.parse did not produce yields undefined. *)
GoalOfJson(o) ==
    [id |-> o.id, title |-> o.title, description |-> o.description,
     deadline |-> o.deadline, priority |-> o.priority, steps |-> o.steps,
     completedSteps |-> o.completedSteps, completed |-> o.completed,
     createdAt |-> o.createdAt,
     completedAt |-> IF "completedAt" \in DOMAIN o THEN o.completedAt ELSE Undefined]

JSONstringify(list) == [kind |-> "array", items |-> [i \in DOMAIN list |-> JsonOfGoal(list[i])]]

(* The storage entry under STORAGE_KEY is one of:                           *)
(*   "unreadable"  localStorage.getItem throws                              *)
(*   "absent"      getItem returns null                                     *)
(*   "empty"       the stored text is the empty string                      *)
(*   "invalid"     the stored text is not JSON ("not json")                 *)
(*   "object", "number", "null"  JSON text of a value that is no array      *)
(*   "array"       JSON text of an array, with its items                    *)
StorageKinds ==
    { "unreadable", "absent", "empty", "invalid", "object", "number", "null", "array" }

(* Mutant: the stored array is dropped like a value that is no array. *)
loadGoalsDropsArray(raw) == <<>>

(* loadGoals: [] when getItem throws, when !raw, when JSON.parse throws and *)
(* when the parsed value is no array; the parsed array otherwise.           *)
loadGoals(raw) ==
    IF raw.kind = "unreadable" THEN <<>>
    ELSE IF raw.kind \in { "absent", "empty" } THEN <<>>
    ELSE IF raw.kind = "invalid" THEN <<>>
    ELSE IF raw.kind = "array"
         THEN [i \in DOMAIN raw.items |-> GoalOfJson(raw.items[i])]
         ELSE <<>>

(* Mutant: the list is never written. *)
saveGoalsNeverWrites(list, accepted) == storage

(* Mutant: a rejected write leaves the entry truncated to the empty text. *)
saveGoalsPartialWrite(list, accepted) ==
    IF accepted THEN JSONstringify(list) ELSE [kind |-> "empty"]

(* saveGoals: the new value of the storage entry; a rejected setItem is swallowed. *)
saveGoals(list, accepted) ==
    IF accepted THEN JSONstringify(list) ELSE storage

(* A list saved by an earlier session: one goal in progress, one completed. *)
StoredGoals ==
    << [id |-> 2, title |-> <<"a">>, description |-> <<"d">>,
        deadline |-> [kind |-> "iso", day |-> 1], priority |-> "High",
        steps |-> 3, completedSteps |-> 3, completed |-> TRUE,
        createdAt |-> 1, completedAt |-> 1],
       [id |-> 1, title |-> <<"a">>, description |-> <<"d">>,
        deadline |-> [kind |-> "iso", day |-> 1], priority |-> "High",
        steps |-> 2, completedSteps |-> 1, completed |-> FALSE,
        createdAt |-> 1, completedAt |-> Undefined] >>

InitialStorage == { [kind |-> "absent"], JSONstringify(StoredGoals) }

(* priorityOrder *)
priorityOrder(p) == IF p = "High" THEN 3 ELSE IF p = "Medium" THEN 2 ELSE 1

(* parseISO(deadline).getTime() *)
getTime(deadline) == deadline.day

FilterKey == { "all", "active", "completed" }

SortKey == { "created-desc", "deadline-asc", "deadline-desc", "priority-desc", "priority-asc" }

(* The filter of filteredGoals applied to one goal. *)
passesFilter(g, f) ==
    /\ f = "active" => ~g.completed
    /\ f = "completed" => g.completed

(* list.filter under the filter key f *)
filterList(list, f) == LET Keep(g) == passesFilter(g, f) IN SelectSeq(list, Keep)

(* Mutant: the priority comparators are swapped. *)
compareSwapsPriority(a, b, key) ==
    IF key = "deadline-asc" THEN getTime(a.deadline) - getTime(b.deadline)
    ELSE IF key = "deadline-desc" THEN getTime(b.deadline) - getTime(a.deadline)
    ELSE IF key = "priority-desc" THEN priorityOrder(a.priority) - priorityOrder(b.priority)
    ELSE IF key = "priority-asc" THEN priorityOrder(b.priority) - priorityOrder(a.priority)
    ELSE b.createdAt - a.createdAt

(* The comparator handed to list.sort under the sort key (default:          *)
(* created-desc); a negative result puts a before b.                        *)
compare(a, b, key) ==
    IF key = "deadline-asc" THEN getTime(a.deadline) - getTime(b.deadline)
    ELSE IF key = "deadline-desc" THEN getTime(b.deadline) - getTime(a.deadline)
    ELSE IF key = "priority-desc" THEN priorityOrder(b.priority) - priorityOrder(a.priority)
    ELSE IF key = "priority-asc" THEN priorityOrder(a.priority) - priorityOrder(b.priority)
    ELSE b.createdAt - a.createdAt

(* Array.prototype.sort is stable: x, which came after every element of     *)
(* sorted, goes behind the elements that do not compare greater than it.    *)
insertInOrder(sorted, x, key) ==
    LET p == Cardinality({ i \in DOMAIN sorted : compare(sorted[i], x, key) <= 0 })
    IN  SubSeq(sorted, 1, p) \o <<x>> \o SubSeq(sorted, p + 1, Len(sorted))

RECURSIVE sort(_, _)
sort(list, key) ==
    IF list = <<>>
    THEN <<>>
    ELSE insertInOrder(sort(SubSeq(list, 1, Len(list) - 1), key), list[Len(list)], key)

(* Mutant: the filter is not applied. *)
viewWithoutFilter(list, f, key) == sort(list, key)

(* filteredGoals: a filtered, sorted copy of the goal list. *)
view(list, f, key) == sort(filterList(list, f), key)

filteredGoals == view(goals, filter, sortBy)

(* uuidv4(): an id that no goal of this or an earlier session carries. *)
uuidv4 == nextId

(* prev.map(g => (g.id === id ? rec : g)) *)
MapReplace(prev, id, rec) ==
    [i \in DOMAIN prev |-> IF prev[i].id = id THEN rec ELSE prev[i]]

(* prev.filter(g => g.id !== id) *)
FilterOut(prev, id) ==
    LET Keep(g) == g.id # id IN SelectSeq(prev, Keep)

(* The first render of App over the storage entry raw, followed by the      *)
(* useEffect that writes the loaded list back; first is the instant the     *)
(* first Date.now() of the session returns.                                 *)
AppStart(raw, accepted, first) ==
    /\ goals = loadGoals(raw)
    /\ storage = IF accepted THEN JSONstringify(loadGoals(raw)) ELSE raw
    /\ editing = Null
    /\ isModalOpen = FALSE
    /\ undoOpen = FALSE
    /\ undoTimerRef = NoTimer
    /\ lastToggledRef = Null
    /\ timers = {}
    /\ now = first
    /\ nextId = Len(loadGoals(raw)) + 1
    /\ filter = "all"
    /\ sortBy = "created-desc"

Init == \E raw \in InitialStorage, accepted \in WriteOutcomes : AppStart(raw, accepted, 2)

(* setGoals followed by the useEffect that saves the list. *)
setGoals(next, accepted) ==
    /\ goals' = next
    /\ storage' = saveGoals(next, accepted)

handleAddNew ==
    /\ editing' = Null
    /\ isModalOpen' = TRUE
    /\ UNCHANGED <<goals, undoOpen, undoTimerRef, lastToggledRef, timers, storage, now, nextId, filter, sortBy>>

handleEdit(i) ==
    /\ editing' = goals[i]
    /\ isModalOpen' = TRUE
    /\ UNCHANGED <<goals, undoOpen, undoTimerRef, lastToggledRef, timers, storage, now, nextId, filter, sortBy>>

(* Modal onClose *)
onClose ==
    /\ isModalOpen
    /\ isModalOpen' = FALSE
    /\ UNCHANGED <<goals, editing, undoOpen, undoTimerRef, lastToggledRef, timers,
                   storage, now, nextId, filter, sortBy>>

(* GoalForm onCancel *)
onCancel ==
    /\ isModalOpen
    /\ isModalOpen' = FALSE
    /\ editing' = Null
    /\ UNCHANGED <<goals, undoOpen, undoTimerRef, lastToggledRef, timers, storage, now, nextId, filter, sortBy>>

(* GoalForm: isEditing = Boolean(initial && initial.id) *)
isEditing(initial) == initial # Null

(* GoalForm.handleSubmit: the record handed to onSave. *)
base(initial, title, description, deadline, priority, steps) ==
    [id |-> IF isEditing(initial) THEN initial.id ELSE uuidv4,
     title |-> Trim(title),
     description |-> Trim(description),
     deadline |-> ToISOString(deadline),
     priority |-> priority,
     steps |-> CoerceSteps(steps),
     completedSteps |-> IF initial # Null THEN initial.completedSteps ELSE 0,
     completed |-> IF initial # Null THEN initial.completed ELSE FALSE,
     createdAt |-> IF isEditing(initial) THEN initial.createdAt ELSE now,
     completedAt |-> IF initial # Null THEN initial.completedAt ELSE Undefined]

(* Mutant: the saved record is prepended without looking for its id. *)
SaveAlwaysPrepends(prev, goal) == <<goal>> \o prev

(* handleSave's updater: replace the record with the same id, else prepend. *)
SaveUpdater(prev, goal) ==
    IF \E i \in DOMAIN prev : prev[i].id = goal.id
    THEN MapReplace(prev, goal.id, goal)
    ELSE <<goal>> \o prev

handleSave(goal, accepted) ==
    /\ setGoals(SaveUpdater(goals, goal), accepted)
    /\ isModalOpen' = FALSE
    /\ editing' = Null

(* Submitting the form that the open modal hosts.  new Date(deadline)       *)
(* .toISOString() throws on an Invalid Date before onSave is reached.       *)
(* Creating a goal reads Date.now() and uuidv4(); the clock is capped.      *)
handleSubmit(title, description, deadline, priority, steps, accepted) ==
    /\ isModalOpen
    /\ IsValidDate(deadline)
    /\ isEditing(editing) \/ now <= MaxNow
    /\ handleSave(base(editing, title, description, deadline, priority, steps), accepted)
    /\ now' = IF isEditing(editing) THEN now ELSE now + 1
    /\ nextId' = IF isEditing(editing) THEN nextId ELSE nextId + 1
    /\ UNCHANGED <<undoOpen, undoTimerRef, lastToggledRef, timers, filter, sortBy>>

(* handleDelete: ok is the answer of window.confirm. *)
handleDelete(i, ok, accepted) ==
    /\ IF ok
       THEN setGoals(FilterOut(goals, goals[i].id), accepted)
       ELSE UNCHANGED <<goals, storage>>
    /\ UNCHANGED <<editing, isModalOpen, undoOpen, undoTimerRef, lastToggledRef,
                   timers, now, nextId, filter, sortBy>>

(* Mutant: un-completing a goal keeps its old completedAt. *)
ToggleUpdatedKeepsStamp(goal) ==
    [goal EXCEPT !.completed = ~goal.completed,
                 !.completedAt = IF ~goal.completed THEN now ELSE goal.completedAt]

(* Mutant: completing a goal also fills its step counter. *)
ToggleUpdatedFillsSteps(goal) ==
    [goal EXCEPT !.completed = ~goal.completed,
                 !.completedAt = IF ~goal.completed THEN now ELSE Undefined,
                 !.completedSteps = IF ~goal.completed THEN goal.steps ELSE goal.completedSteps]

(* handleToggleComplete: the record written in place of goal. *)
ToggleUpdated(goal) ==
    [goal EXCEPT !.completed = ~goal.completed,
                 !.completedAt = IF ~goal.completed THEN now ELSE Undefined]

(* Mutant: a toggle keeps the record an earlier toggle remembered. *)
RememberFirstToggle(goal) == IF lastToggledRef # Null THEN lastToggledRef ELSE goal

(* handleToggleComplete: lastToggledRef.current = goal, the record as rendered. *)
RememberOnToggle(goal) == goal

(* Mutant: the pending timeout is left running. *)
KeepUndoTimer == timers

(* window.clearTimeout(undoTimerRef.current), guarded by its truthiness. *)
ClearUndoTimer == IF undoTimerRef # NoTimer THEN timers \ { undoTimerRef } ELSE timers

(* window.setTimeout returns a handle that no pending timeout carries. *)
FreeTimerIds(pending) == TimerIds \ pending

setTimeout(pending) ==
    CHOOSE t \in FreeTimerIds(pending) : \A other \in FreeTimerIds(pending) : t <= other

(* Completing a goal reads Date.now(); the clock is capped. *)
handleToggleComplete(i, accepted) ==
    /\ FreeTimerIds(ClearUndoTimer) # {}
    /\ goals[i].completed \/ now <= MaxNow
    /\ setGoals(MapReplace(goals, goals[i].id, ToggleUpdated(goals[i])), accepted)
    /\ lastToggledRef' = RememberOnToggle(goals[i])
    /\ undoOpen' = TRUE
    /\ undoTimerRef' = setTimeout(ClearUndoTimer)
    /\ timers' = ClearUndoTimer \cup { setTimeout(ClearUndoTimer) }
    /\ now' = IF goals[i].completed THEN now ELSE now + 1
    /\ UNCHANGED <<editing, isModalOpen, nextId, filter, sortBy>>

(* Mutant: the expired timeout leaves the notification open. *)
TimerFiresKeepsToast(t) ==
    /\ t \in timers
    /\ timers' = timers \ { t }
    /\ UNCHANGED <<goals, editing, isModalOpen, undoOpen, undoTimerRef, lastToggledRef,
                   storage, now, nextId, filter, sortBy>>

(* The callback scheduled by handleToggleComplete, run when timeout t expires. *)
TimerFires(t) ==
    /\ t \in timers
    /\ timers' = timers \ { t }
    /\ undoOpen' = FALSE
    /\ UNCHANGED <<goals, editing, isModalOpen, undoTimerRef, lastToggledRef,
                   storage, now, nextId, filter, sortBy>>

(* Mutant: undo reverts the completion fields of the current record only. *)
UndoRevertsCompletionOnly(prev, last) ==
    [k \in DOMAIN prev |->
        IF prev[k].id = last.id
        THEN [prev[k] EXCEPT !.completed = last.completed, !.completedAt = last.completedAt]
        ELSE prev[k]]

(* Mutant: undo moves the remembered record to the front of the list. *)
UndoMovesToFront(prev, last) == <<last>> \o FilterOut(prev, last.id)

(* handleUndo's updater: put the remembered record back in place. *)
UndoUpdater(prev, last) == MapReplace(prev, last.id, last)

(* Mutant: undo leaves the remembered record in the slot. *)
handleUndoKeepsSlot(accepted) ==
    /\ lastToggledRef # Null
    /\ setGoals(UndoUpdater(goals, lastToggledRef), accepted)
    /\ undoOpen' = FALSE
    /\ timers' = ClearUndoTimer
    /\ UNCHANGED <<editing, isModalOpen, undoTimerRef, lastToggledRef, now, nextId,
                   filter, sortBy>>

handleUndo(accepted) ==
    /\ lastToggledRef # Null
    /\ setGoals(UndoUpdater(goals, lastToggledRef), accepted)
    /\ undoOpen' = FALSE
    /\ lastToggledRef' = Null
    /\ timers' = ClearUndoTimer
    /\ UNCHANGED <<editing, isModalOpen, undoTimerRef, now, nextId, filter, sortBy>>

(* GoalCard renders the step buttons only when goal.steps > 1. *)
showProgress(goal) == goal.steps > 1

(* Mutant: the increment that fills the counter also completes the goal. *)
IncrementStepCompletes(prev, goal) ==
    IF goal.completed \/ goal.completedSteps >= goal.steps
    THEN prev
    ELSE MapReplace(prev, goal.id,
                    [goal EXCEPT !.completedSteps = goal.completedSteps + 1,
                                 !.completed = (goal.completedSteps + 1 = goal.steps),
                                 !.completedAt = IF goal.completedSteps + 1 = goal.steps
                                                 THEN now ELSE Undefined])

(* handleIncrementStep: the list it leaves (prev itself when it returns early). *)
IncrementStep(prev, goal) ==
    IF goal.completed \/ goal.completedSteps >= goal.steps
    THEN prev
    ELSE MapReplace(prev, goal.id, [goal EXCEPT !.completedSteps = goal.completedSteps + 1])

handleIncrementStep(i, accepted) ==
    /\ showProgress(goals[i])
    /\ IncrementStep(goals, goals[i]) # goals
    /\ setGoals(IncrementStep(goals, goals[i]), accepted)
    /\ UNCHANGED <<editing, isModalOpen, undoOpen, undoTimerRef, lastToggledRef,
                   timers, now, nextId, filter, sortBy>>

(* handleDecrementStep: the list it leaves (prev itself when it returns early). *)
DecrementStep(prev, goal) ==
    IF goal.completed \/ goal.completedSteps <= 0
    THEN prev
    ELSE MapReplace(prev, goal.id, [goal EXCEPT !.completedSteps = goal.completedSteps - 1])

handleDecrementStep(i, accepted) ==
    /\ showProgress(goals[i])
    /\ DecrementStep(goals, goals[i]) # goals
    /\ setGoals(DecrementStep(goals, goals[i]), accepted)
    /\ UNCHANGED <<editing, isModalOpen, undoOpen, undoTimerRef, lastToggledRef,
                   timers, now, nextId, filter, sortBy>>

Submit ==
    \E title \in TitleInputs, description \in DescriptionInputs,
       deadline \in DeadlineInputs, priority \in PriorityInputs,
       steps \in StepsInputs, accepted \in WriteOutcomes :
        handleSubmit(title, description, deadline, priority, steps, accepted)

(* A card is rendered for each goal of filteredGoals, so the card handlers   *)
(* run on the goals that pass the filter.                                   *)
cards == { i \in DOMAIN goals : passesFilter(goals[i], filter) }

Delete == \E i \in cards, ok \in BOOLEAN, accepted \in WriteOutcomes :
    handleDelete(i, ok, accepted)

Toggle == \E i \in cards, accepted \in WriteOutcomes : handleToggleComplete(i, accepted)

Undo == \E accepted \in WriteOutcomes : handleUndo(accepted)

Increment == \E i \in cards, accepted \in WriteOutcomes : handleIncrementStep(i, accepted)

Decrement == \E i \in cards, accepted \in WriteOutcomes : handleDecrementStep(i, accepted)

Edit == \E i \in cards : handleEdit(i)

Timeout == \E t \in timers : TimerFires(t)

Next ==
    \/ handleAddNew
    \/ Edit
    \/ onClose
    \/ onCancel
    \/ Submit
    \/ Delete
    \/ Toggle
    \/ Timeout
    \/ Undo
    \/ Increment
    \/ Decrement

Spec == Init /\ [][Next]_vars

(***************************************************************************)
(* The view specification: the handlers of the main specification with    *)
(* the filter buttons and the sort selector, over a stored list of one     *)
(* goal in progress that was created before instant 1.                     *)
(***************************************************************************)

StoredEarlier == << [StoredGoals[2] EXCEPT !.createdAt = 0] >>

setFilter(f) ==
    /\ filter' = f
    /\ UNCHANGED <<goals, editing, isModalOpen, undoOpen, undoTimerRef, lastToggledRef,
                   timers, storage, now, nextId, sortBy>>

setSortBy(key) ==
    /\ sortBy' = key
    /\ UNCHANGED <<goals, editing, isModalOpen, undoOpen, undoTimerRef, lastToggledRef,
                   timers, storage, now, nextId, filter>>

ChangeFilter == \E f \in FilterKey : setFilter(f)

ChangeSort == \E key \in SortKey : setSortBy(key)

InitView ==
    \E accepted \in WriteOutcomes : AppStart(JSONstringify(StoredEarlier), accepted, 1)

NextView ==
    \/ ChangeFilter
    \/ ChangeSort
    \/ handleAddNew
    \/ Edit
    \/ onClose
    \/ onCancel
    \/ Submit
    \/ Delete
    \/ Toggle
    \/ Timeout
    \/ Undo
    \/ Increment
    \/ Decrement

SpecView == InitView /\ [][NextView]_vars

(***************************************************************************)
(* The sort specification: the session starts over every stored list of    *)
(* up to MaxListLen goals that differ in priority, completion, deadline    *)
(* and creation time (the later deadline belongs to the goal created       *)
(* earlier), and the filter and the sort key are changed.                  *)
(***************************************************************************)

MaxListLen == 3

(* The goal stored at position id. *)
SortGoal(id, priority, completed, day) ==
    [id |-> id, title |-> <<"a">>, description |-> <<"d">>,
     deadline |-> [kind |-> "iso", day |-> day], priority |-> priority,
     steps |-> 1, completedSteps |-> 0, completed |-> completed,
     createdAt |-> 2 - day, completedAt |-> IF completed THEN 1 ELSE Undefined]

SortLists ==
    UNION { [ 1..n -> Priority \X BOOLEAN \X { 1, 2 } ] : n \in 0..MaxListLen }

GoalsOf(choice) ==
    [ i \in DOMAIN choice |-> SortGoal(i, choice[i][1], choice[i][2], choice[i][3]) ]

InitSort ==
    \E choice \in SortLists, accepted \in WriteOutcomes :
        AppStart(JSONstringify(GoalsOf(choice)), accepted, 2)

NextSort ==
    \/ ChangeFilter
    \/ ChangeSort

SpecSort == InitSort /\ [][NextSort]_vars

(***************************************************************************)
(* The timer specification: the handlers over the stored list of one goal  *)
(* in progress, where the browser runs the callback of a pending timeout   *)
(* once its delay has passed (weak fairness of Timeout).                   *)
(***************************************************************************)

InitLive ==
    \E accepted \in WriteOutcomes : AppStart(JSONstringify(<<StoredGoals[2]>>), accepted, 2)

SpecLive == InitLive /\ [][Next]_vars /\ WF_vars(Timeout)

(***************************************************************************)
(* The form specification: a session that starts with nothing stored and   *)
(* in which the form is submitted with every kind of title, deadline and   *)
(* steps value.                                                            *)
(***************************************************************************)

(* Titles typed into the form: empty, blank, padded. *)
FormTitleInputs == { <<>>, <<" ">>, <<" ", "a", " ">> }

(* The date input holds a date or is cleared. *)
FormDeadlineInputs == { [kind |-> "date", day |-> 1], [kind |-> "empty"] }

(* Steps values in halves: NaN, -2, -0.5, 0, 1, 3.5 and 4. *)
FormStepsInputs ==
    { [kind |-> "nan", halves |-> 0] } \cup
    { [kind |-> "num", halves |-> h] : h \in { -4, -1, 0, 2, 7, 8 } }

(* The browser's constraint validation of the form: the title input is    *)
(* required (any non-empty text satisfies it), the steps input has min=1   *)
(* and the default step of 1; a steps state of NaN renders as an empty     *)
(* number input, which is valid.                                           *)
checkValidity(title, steps) ==
    /\ title # <<>>
    /\ \/ steps.kind = "nan"
       \/ steps.kind = "num" /\ steps.halves >= 2 /\ steps.halves % 2 = 0

(* The user submits the form; the browser fires the submit event only when *)
(* the form is valid.                                                      *)
SubmitInteractive ==
    \E title \in FormTitleInputs, description \in DescriptionInputs,
       deadline \in FormDeadlineInputs, priority \in PriorityInputs,
       steps \in FormStepsInputs, accepted \in WriteOutcomes :
        /\ checkValidity(title, steps)
        /\ handleSubmit(title, description, deadline, priority, steps, accepted)

(* A submit event dispatched on the form without validation (a script or a *)
(* test harness): handleSubmit runs on whatever the fields hold.           *)
SubmitEvent ==
    \E title \in FormTitleInputs, description \in DescriptionInputs,
       deadline \in FormDeadlineInputs, priority \in PriorityInputs,
       steps \in FormStepsInputs, accepted \in WriteOutcomes :
        handleSubmit(title, description, deadline, priority, steps, accepted)

InitForm == \E accepted \in WriteOutcomes : AppStart([kind |-> "absent"], accepted, 1)

NextForm ==
    \/ handleAddNew
    \/ Edit
    \/ onClose
    \/ onCancel
    \/ SubmitInteractive
    \/ SubmitEvent
    \/ Delete
    \/ Toggle
    \/ Timeout
    \/ Undo
    \/ Increment
    \/ Decrement

SpecForm == InitForm /\ [][NextForm]_vars

(***************************************************************************)
(* The storage specification: the session starts over every kind of        *)
(* storage entry, every write to the store is accepted or rejected, and    *)
(* the page may be reloaded.                                               *)
(***************************************************************************)

(* Every kind of entry; the arrays are the empty list and the list of the   *)
(* one goal in progress.                                                    *)
StorageEntries ==
    { [kind |-> k] : k \in StorageKinds \ { "array" } }
        \cup { JSONstringify(<<>>), JSONstringify(<<StoredGoals[2]>>) }

InitStore == \E raw \in StorageEntries, accepted \in BOOLEAN : AppStart(raw, accepted, 2)

(* Mutant: the reloaded page never writes the loaded list back. *)
ReloadWithoutWriteBack(accepted) ==
    /\ goals' = loadGoals(storage)
    /\ storage' = storage
    /\ editing' = Null
    /\ isModalOpen' = FALSE
    /\ undoOpen' = FALSE
    /\ undoTimerRef' = NoTimer
    /\ lastToggledRef' = Null
    /\ timers' = {}
    /\ filter' = "all"
    /\ sortBy' = "created-desc"
    /\ UNCHANGED <<now, nextId>>

(* The page is reloaded: App is constructed again over the current entry;  *)
(* the pending timeouts die with the old page.                             *)
Reload(accepted) ==
    /\ goals' = loadGoals(storage)
    /\ storage' = IF accepted THEN JSONstringify(loadGoals(storage)) ELSE storage
    /\ editing' = Null
    /\ isModalOpen' = FALSE
    /\ undoOpen' = FALSE
    /\ undoTimerRef' = NoTimer
    /\ lastToggledRef' = Null
    /\ timers' = {}
    /\ filter' = "all"
    /\ sortBy' = "created-desc"
    /\ UNCHANGED <<now, nextId>>

ReloadPage == \E accepted \in BOOLEAN : Reload(accepted)

SubmitStore ==
    \E title \in TitleInputs, description \in DescriptionInputs,
       deadline \in DeadlineInputs, priority \in PriorityInputs,
       steps \in StepsInputs, accepted \in BOOLEAN :
        handleSubmit(title, description, deadline, priority, steps, accepted)

DeleteStore == \E i \in cards, ok \in BOOLEAN, accepted \in BOOLEAN :
    handleDelete(i, ok, accepted)

ToggleStore == \E i \in cards, accepted \in BOOLEAN : handleToggleComplete(i, accepted)

UndoStore == \E accepted \in BOOLEAN : handleUndo(accepted)

IncrementStore == \E i \in cards, accepted \in BOOLEAN : handleIncrementStep(i, accepted)

DecrementStore == \E i \in cards, accepted \in BOOLEAN : handleDecrementStep(i, accepted)

NextStore ==
    \/ ReloadPage
    \/ handleAddNew
    \/ Edit
    \/ onClose
    \/ onCancel
    \/ SubmitStore
    \/ DeleteStore
    \/ ToggleStore
    \/ Timeout
    \/ UndoStore
    \/ IncrementStore
    \/ DecrementStore

SpecStore == InitStore /\ [][NextStore]_vars

(***************************************************************************)
(* Properties                                                              *)
(***************************************************************************)

Ids(list) == { list[k].id : k \in DOMAIN list }

GoalFields == { "id", "title", "description", "deadline", "priority", "steps",
                "completedSteps", "completed", "createdAt", "completedAt" }

(* A step of the named handler, for some outcome of the storage write. *)
ToggleStep(i) == \E accepted \in WriteOutcomes : handleToggleComplete(i, accepted)

UndoStep == \E accepted \in WriteOutcomes : handleUndo(accepted)

DeleteStep(i, ok) == \E accepted \in WriteOutcomes : handleDelete(i, ok, accepted)

(* A mutation whose write to the store has the given outcome. *)
SubmitWritten(accepted) ==
    \E title \in TitleInputs, description \in DescriptionInputs,
       deadline \in DeadlineInputs, priority \in PriorityInputs, steps \in StepsInputs :
        handleSubmit(title, description, deadline, priority, steps, accepted)

Mutation(accepted) ==
    \/ SubmitWritten(accepted)
    \/ \E i \in DOMAIN goals : handleDelete(i, TRUE, accepted)
    \/ \E i \in DOMAIN goals : handleToggleComplete(i, accepted)
    \/ handleUndo(accepted)
    \/ \E i \in DOMAIN goals : handleIncrementStep(i, accepted)
    \/ \E i \in DOMAIN goals : handleDecrementStep(i, accepted)

(* A submit of the form, validated or not, with the given steps value. *)
SubmitWithSteps(steps) ==
    \E title \in FormTitleInputs, description \in DescriptionInputs,
       deadline \in FormDeadlineInputs, priority \in PriorityInputs,
       accepted \in WriteOutcomes :
        handleSubmit(title, description, deadline, priority, steps, accepted)

(* The id of the record that a submit of the open form saves. *)
SavedId == IF isEditing(editing) THEN editing.id ELSE nextId

IncrementStepOf(i) == \E accepted \in BOOLEAN : handleIncrementStep(i, accepted)

DecrementStepOf(i) == \E accepted \in BOOLEAN : handleDecrementStep(i, accepted)

(* Some goal is toggled. *)
ToggleMade == \E i \in DOMAIN goals : ToggleStep(i)

(* What the start of the application over the storage entry leaves: the    *)
(* list loaded from the entry, and its serialisation in the store.          *)
StartedFromStore ==
    /\ goals' = loadGoals(storage)
    /\ storage' = JSONstringify(goals')
    /\ storage.kind # "array" => storage' = JSONstringify(<<>>)
    /\ storage.kind = "array" => storage' = storage

(* The countdown armed by the latest toggle is still pending. *)
CountdownPending == undoTimerRef # NoTimer /\ undoTimerRef \in timers

(* C1: every goal in the repository satisfies 0 <= completedSteps <= steps  *)
(* after any sequence of create, edit, delete, toggle, undo and step        *)
(* operations.                                                              *)
C1_StepsWithinBounds ==
    \A k \in DOMAIN goals :
        0 <= goals[k].completedSteps /\ goals[k].completedSteps <= goals[k].steps

(* C2: every goal has completedAt set if and only if completed is true.     *)
C2_CompletedAtIffCompleted ==
    \A k \in DOMAIN goals : (goals[k].completedAt # Undefined) <=> goals[k].completed

(* Reached: after an undo, a goal completed in this session sits beside a   *)
(* goal that is not completed.                                              *)
C2_Witness ==
    /\ lastToggledRef = Null
    /\ undoTimerRef # NoTimer
    /\ \E k \in DOMAIN goals : goals[k].completed /\ goals[k].completedAt > 1
    /\ \E k \in DOMAIN goals : ~goals[k].completed

(* C3: a toggle remembers the record as it was immediately before the       *)
(* toggle; edits, step changes, deletes and the timer leave the remembered  *)
(* record alone; an undo invoked while the countdown is pending makes the   *)
(* toggled goal's record equal to the remembered one, closes the            *)
(* notification and leaves no countdown pending.                            *)
C3_UndoRestoresPriorRecord ==
    [][ /\ \A i \in DOMAIN goals : ToggleStep(i) => lastToggledRef' = goals[i]
        /\ (lastToggledRef # Null /\ lastToggledRef' # lastToggledRef)
              => (UndoStep \/ \E i \in DOMAIN goals : ToggleStep(i))
        /\ (UndoStep /\ CountdownPending)
              => /\ DOMAIN goals' = DOMAIN goals
                 /\ \A k \in DOMAIN goals :
                       goals[k].id = lastToggledRef.id
                          => \A f \in GoalFields : goals'[k][f] = lastToggledRef[f]
                 /\ ~undoOpen'
                 /\ timers' = {}
      ]_vars

(* Reached: the countdown is pending and the toggled goal has been edited   *)
(* since the toggle, so that undo has more than the toggle to revert.       *)
C3_Witness ==
    /\ CountdownPending
    /\ lastToggledRef # Null
    /\ \E k \in DOMAIN goals :
          /\ goals[k].id = lastToggledRef.id
          /\ goals[k].steps # lastToggledRef.steps
          /\ goals[k].completed # lastToggledRef.completed

(* C4: when the countdown lapses the remembered record is discarded, and an *)
(* undo invoked after the window leaves the goal list unchanged.            *)
C4_LapseDiscardsRemembered ==
    [][ /\ Timeout => lastToggledRef' = Null
        /\ (UndoStep /\ ~CountdownPending) => goals' = goals
      ]_vars

(* C5: there is one undo slot.  A toggle made while an earlier toggle is    *)
(* still remembered replaces the remembered record by the record as it was  *)
(* just before this toggle, and undo then restores that record only: every  *)
(* goal with another id, the first toggle's included, keeps its record.     *)
C5_SingleUndoSlot ==
    [][ /\ \A i \in DOMAIN goals :
              (ToggleStep(i) /\ lastToggledRef # Null /\ CountdownPending)
                 => lastToggledRef' = goals[i]
        /\ UndoStep
              => /\ lastToggledRef' = Null
                 /\ DOMAIN goals' = DOMAIN goals
                 /\ \A k \in DOMAIN goals :
                       goals'[k] = IF goals[k].id = lastToggledRef.id
                                   THEN lastToggledRef
                                   ELSE goals[k]
      ]_vars

(* Reached: after two toggles and an undo, the goal completed by the first  *)
(* toggle is still completed while the slot is empty again.                 *)
C5_Witness ==
    /\ lastToggledRef = Null
    /\ ~undoOpen
    /\ timers = {}
    /\ \E k \in DOMAIN goals : goals[k].completed /\ goals[k].completedAt > 1

(* C6: at most one countdown is pending, it is the one scheduled by the     *)
(* latest toggle, and while it is pending the notification is open and a    *)
(* record is remembered.                                                    *)
C6_OneCountdown ==
    /\ Cardinality(timers) <= 1
    /\ timers \subseteq { undoTimerRef }
    /\ timers # {} => (undoOpen /\ lastToggledRef # Null)

(* Reached: a second toggle was made on another goal; one countdown is      *)
(* pending.                                                                 *)
C6_Witness ==
    /\ timers = { undoTimerRef }
    /\ lastToggledRef # Null
    /\ \E k \in DOMAIN goals :
          /\ goals[k].id # lastToggledRef.id
          /\ goals[k].completed
          /\ goals[k].completedAt > 1

(* C7: saving an edit whose goal id is not in the repository leaves the     *)
(* goal list unchanged.                                                     *)
C7_SaveOfMissingIdIsNoOp ==
    [][ (Submit /\ isEditing(editing) /\ editing.id \notin Ids(goals))
           => goals' = goals
      ]_vars

(* C8: a declined delete leaves the repository unchanged, a confirmed       *)
(* delete removes the goal, and an id that has left the repository never    *)
(* comes back.                                                              *)
C8_DeleteIsIrreversible ==
    [][ /\ \A i \in DOMAIN goals : DeleteStep(i, FALSE) => goals' = goals
        /\ \A i \in DOMAIN goals : DeleteStep(i, TRUE) => goals[i].id \notin Ids(goals')
        /\ \A id \in 1..(nextId - 1) : id \notin Ids(goals) => id \notin Ids(goals')
      ]_vars

(* C9: toggle-completion on goal g flips g.completed, sets completedAt to   *)
(* the current time on false->true and clears it on true->false, and leaves *)
(* every other field of g and every other goal unchanged.                   *)
C9_ToggleFlipsOnlyCompletion ==
    [][ \A i \in DOMAIN goals :
           ToggleStep(i)
              => /\ DOMAIN goals' = DOMAIN goals
                 /\ goals'[i].completed = ~goals[i].completed
                 /\ goals'[i].completedAt = IF goals[i].completed THEN Undefined ELSE now
                 /\ \A f \in GoalFields \ { "completed", "completedAt" } :
                       goals'[i][f] = goals[i][f]
                 /\ \A k \in DOMAIN goals : k # i => goals'[k] = goals[k]
      ]_vars

(* Reached: a goal with progress has just been toggled, beside another goal. *)
C9_Witness ==
    /\ lastToggledRef # Null
    /\ Len(goals) >= 2
    /\ \E k \in DOMAIN goals :
          /\ goals[k].id = lastToggledRef.id
          /\ goals[k].completed # lastToggledRef.completed
          /\ goals[k].completedSteps > 0
          /\ goals[k].completedSteps < goals[k].steps

(* C10: increment is a no-op when the goal is completed or completedSteps   *)
(* equals steps and otherwise raises completedSteps by exactly 1; decrement *)
(* is a no-op when the goal is completed or completedSteps is 0 and         *)
(* otherwise lowers it by exactly 1.                                        *)
C10_StepContract ==
    \A i \in DOMAIN goals :
        showProgress(goals[i]) =>
            /\ IncrementStep(goals, goals[i]) =
                  IF goals[i].completed \/ goals[i].completedSteps = goals[i].steps
                  THEN goals
                  ELSE [goals EXCEPT ![i].completedSteps = @ + 1]
            /\ DecrementStep(goals, goals[i]) =
                  IF goals[i].completed \/ goals[i].completedSteps = 0
                  THEN goals
                  ELSE [goals EXCEPT ![i].completedSteps = @ - 1]

(* C11: step operations never change completion.  An increment or a         *)
(* decrement leaves completed and completedAt of every goal as they were    *)
(* and moves the counter of its goal by one; so the increment that brings   *)
(* a goal of 4 steps to completedSteps = 4 leaves it not completed.         *)
C11_StepsNeverChangeCompletion ==
    [][ \A i \in DOMAIN goals :
           /\ (IncrementStepOf(i) \/ DecrementStepOf(i))
                 => /\ DOMAIN goals' = DOMAIN goals
                    /\ \A k \in DOMAIN goals :
                          /\ goals'[k].completed = goals[k].completed
                          /\ goals'[k].completedAt = goals[k].completedAt
           /\ (IncrementStepOf(i) /\ goals[i].steps = 4 /\ goals[i].completedSteps = 3)
                 => /\ goals'[i].completedSteps = 4
                    /\ ~goals'[i].completed
                    /\ goals'[i].completedAt = Undefined
      ]_vars

(* Reached: a goal created in this session with steps = 4 has been stepped  *)
(* up to completedSteps = 4 and is not completed.                           *)
C11_Witness ==
    \E k \in DOMAIN goals :
        /\ goals[k].steps = 4
        /\ goals[k].completedSteps = 4
        /\ ~goals[k].completed
        /\ goals[k].completedAt = Undefined

(* C12: after a create, edit, delete, toggle, undo, increment or decrement  *)
(* whose write the store accepts, the list read back from the storage key   *)
(* equals the in-memory goal list.                                          *)
C12_PersistedEqualsMemory ==
    [][ Mutation(TRUE) => /\ storage'.kind = "array"
                          /\ loadGoals(storage') = goals'
      ]_vars

(* Reached: a goal was stepped down to 0 and then completed, and the list   *)
(* read back from the store is the in-memory list.                          *)
C12_Witness ==
    /\ goals # <<>>
    /\ loadGoals(storage) = goals
    /\ lastToggledRef # Null
    /\ \E k \in DOMAIN goals : goals[k].completed /\ goals[k].completedSteps = 0

(* C13: when the store rejects the write of a mutation, the mutation takes  *)
(* effect in memory as it does with a working store, the handler runs to    *)
(* its end (the modal closes after a save, the notification opens after a   *)
(* toggle), and the stored value stays what it was.                         *)
C13_RejectedWriteIsAbsorbed ==
    [][ /\ Mutation(FALSE) => storage' = storage
        /\ SubmitWritten(FALSE)
              => /\ Ids(goals') = Ids(goals) \cup { IF isEditing(editing) THEN editing.id ELSE nextId }
                 /\ ~isModalOpen' /\ editing' = Null
        /\ \A i \in DOMAIN goals :
              /\ handleDelete(i, TRUE, FALSE) => goals' = FilterOut(goals, goals[i].id)
              /\ handleToggleComplete(i, FALSE)
                    => /\ goals' = [goals EXCEPT ![i] = ToggleUpdated(goals[i])]
                       /\ undoOpen' /\ lastToggledRef' = goals[i]
              /\ handleIncrementStep(i, FALSE)
                    => goals' = [goals EXCEPT ![i].completedSteps = @ + 1]
              /\ handleDecrementStep(i, FALSE)
                    => goals' = [goals EXCEPT ![i].completedSteps = @ - 1]
        /\ handleUndo(FALSE)
              => /\ goals' = UndoUpdater(goals, lastToggledRef)
                 /\ ~undoOpen' /\ lastToggledRef' = Null
      ]_vars

(* Reached: a toggle whose write was rejected is in effect in memory while  *)
(* the store still holds the list written before it.                        *)
C13_Witness ==
    /\ storage.kind = "array"
    /\ loadGoals(storage) # goals
    /\ undoOpen
    /\ \E k \in DOMAIN goals :
          /\ goals[k].completed
          /\ lastToggledRef = [goals[k] EXCEPT !.completed = FALSE, !.completedAt = Undefined]

(* C14: loadGoals never raises.  Over an unreadable store, an absent key,   *)
(* text that is not JSON and JSON that is no array it returns the empty     *)
(* list; over a stored array it returns that array.                         *)
C14_LoadNeverRaises ==
    /\ storage.kind \in StorageKinds
    /\ storage.kind \in { "unreadable", "absent", "empty", "invalid", "object", "number", "null" }
          => loadGoals(storage) = <<>>
    /\ storage.kind = "array"
          => /\ Len(loadGoals(storage)) = Len(storage.items)
             /\ \A k \in DOMAIN storage.items :
                   \A f \in DOMAIN storage.items[k] :
                       loadGoals(storage)[k][f] = storage.items[k][f]

(* Reached: the page was reloaded over text that is not JSON after a goal   *)
(* had been created in memory, and the list is empty.                       *)
C14_Witness ==
    /\ storage.kind = "invalid"
    /\ nextId > 1
    /\ goals = <<>>
    /\ ~isModalOpen

(* C15: starting from a stored list with pairwise distinct ids, no two      *)
(* goals of the repository ever have the same id, whatever sequence of      *)
(* create, edit-save (of a present or an absent id), delete, toggle, undo   *)
(* and step operations has run.                                             *)
C15_UniqueIds ==
    \A j, k \in DOMAIN goals : j # k => goals[j].id # goals[k].id

(* Reached: the oldest stored goal stands in front of another goal, which   *)
(* happens only when the save of an edit has put back an id that had been   *)
(* deleted.                                                                 *)
C15_Witness ==
    /\ Len(goals) >= 2
    /\ goals[1].id = 1

(* C16: repository order is insertion order.  Create puts the new goal at   *)
(* the front and the existing goals follow in their order; edit, toggle,    *)
(* undo, increment and decrement keep the length of the list and the        *)
(* position of every goal; a confirmed delete removes exactly its goal and  *)
(* keeps the order of the rest; changing the filter or the sort key leaves  *)
(* the repository as it is.                                                 *)
C16_InsertionOrder ==
    [][ /\ (Submit /\ ~isEditing(editing))
              => /\ Len(goals') = Len(goals) + 1
                 /\ goals'[1].id = nextId
                 /\ Tail(goals') = goals
        /\ \/ Submit /\ isEditing(editing)
           \/ \E i \in DOMAIN goals : ToggleStep(i) \/ IncrementStepOf(i) \/ DecrementStepOf(i)
           \/ UndoStep
           => /\ Len(goals') = Len(goals)
              /\ \A k \in DOMAIN goals : goals'[k].id = goals[k].id
        /\ \A i \in DOMAIN goals :
              DeleteStep(i, TRUE)
                 => goals' = SubSeq(goals, 1, i - 1) \o SubSeq(goals, i + 1, Len(goals))
        /\ (ChangeFilter \/ ChangeSort) => (goals' = goals /\ storage' = storage)
      ]_vars

(* The order the claim gives for a sort key: a may stand before b. *)
MayPrecede(a, b, key) ==
    CASE key = "created-desc"  -> a.createdAt >= b.createdAt
      [] key = "deadline-asc"  -> a.deadline.day <= b.deadline.day
      [] key = "deadline-desc" -> a.deadline.day >= b.deadline.day
      [] key = "priority-desc" -> \/ a.priority = "High"
                                  \/ a.priority = "Medium" /\ b.priority # "High"
                                  \/ b.priority = "Low"
      [] key = "priority-asc"  -> \/ a.priority = "Low"
                                  \/ a.priority = "Medium" /\ b.priority # "Low"
                                  \/ b.priority = "High"

(* C17: for every goal list, filter and sort key, the derived view holds    *)
(* exactly the goals that pass the filter (all: every goal; active: not     *)
(* completed; completed: completed), each once, in the order of the sort    *)
(* key; under filter completed and sort priority-desc it holds completed    *)
(* goals only, every High before every Medium before every Low.             *)
C17_ViewIsFilteredAndSorted ==
    LET shown == filteredGoals
        Passing == { k \in DOMAIN goals :
                        \/ filter = "all"
                        \/ filter = "active" /\ ~goals[k].completed
                        \/ filter = "completed" /\ goals[k].completed }
    IN  /\ Len(shown) = Cardinality(Passing)
        /\ \A k \in Passing : \E j \in DOMAIN shown : shown[j] = goals[k]
        /\ \A j \in DOMAIN shown : \E k \in Passing : shown[j] = goals[k]
        /\ \A i, j \in DOMAIN shown : i < j => MayPrecede(shown[i], shown[j], sortBy)

(* Reached: of the goals stored as Low (completed), Medium (active) and     *)
(* High (completed), filter completed with sort priority-desc shows the     *)
(* High one and then the Low one.                                           *)
C17_Witness ==
    /\ filter = "completed"
    /\ sortBy = "priority-desc"
    /\ Len(goals) = 3
    /\ goals[1].priority = "Low" /\ goals[2].priority = "Medium" /\ goals[3].priority = "High"
    /\ goals[1].completed /\ ~goals[2].completed /\ goals[3].completed
    /\ filteredGoals = <<goals[3], goals[1]>>

(* C18: whatever steps value the form is submitted with (positive, 0,       *)
(* negative, fractional or NaN), the steps stored in the created or edited  *)
(* goal is an integer >= 1; an input of 0 or of a negative integer stores   *)
(* exactly 1 and an integer input n >= 1 stores n.                          *)
C18_StepsCoercedToAtLeastOne ==
    [][ \A steps \in FormStepsInputs :
           (isModalOpen /\ ~isModalOpen' /\ SubmitWithSteps(steps))
              => \E k \in DOMAIN goals' :
                    /\ goals'[k].id = SavedId
                    /\ goals'[k].steps \in Nat \ { 0 }
                    /\ (steps.kind = "num" /\ steps.halves % 2 = 0 /\ steps.halves <= 0)
                          => goals'[k].steps = 1
                    /\ (steps.kind = "num" /\ steps.halves % 2 = 0 /\ steps.halves >= 2)
                          => goals'[k].steps * 2 = steps.halves
      ]_vars

(* Reached: the form has saved a goal with steps 1 and a goal with steps 4, *)
(* and every goal of the list was created by the form in this session.      *)
C18_Witness ==
    /\ \E k \in DOMAIN goals : goals[k].steps = 1
    /\ \E k \in DOMAIN goals : goals[k].steps = 4
    /\ \A k \in DOMAIN goals : goals[k].createdAt >= 1

(* C19: every goal created through the form has a title that is non-empty   *)
(* after trimming: a validated submit of the Add Goal form puts a goal with  *)
(* a non-empty title at the front of the list.                               *)
C19_CreatedTitleNonEmpty ==
    [][ (SubmitInteractive /\ ~isEditing(editing))
           => /\ Len(goals') = Len(goals) + 1
              /\ goals'[1].title # <<>>
      ]_vars

(* C20: saving an edit changes only the form fields of the edited goal: its *)
(* id, createdAt, completed, completedAt and completedSteps after the save  *)
(* are those the repository held just before the save, also when the goal   *)
(* was toggled, restored or stepped after the form was opened.              *)
C20_EditSaveKeepsProgress ==
    [][ (Submit /\ isEditing(editing))
           => \A k \in DOMAIN goals :
                 goals[k].id = editing.id
                    => /\ k \in DOMAIN goals'
                       /\ \A f \in { "id", "createdAt", "completed", "completedAt",
                                      "completedSteps" } :
                             goals'[k][f] = goals[k][f]
      ]_vars

(* C21: undo changes at most the one goal whose id is the id of the         *)
(* remembered record: the list that undo leaves has the length and the      *)
(* order of the current list, and every goal with another id keeps its      *)
(* current record, mutations made after the toggle included.                *)
C21_UndoFrame ==
    lastToggledRef # Null =>
        LET after == UndoUpdater(goals, lastToggledRef)
        IN  /\ Len(after) = Len(goals)
            /\ \A k \in DOMAIN goals :
                  /\ after[k].id = goals[k].id
                  /\ goals[k].id # lastToggledRef.id => after[k] = goals[k]

(* Reached: an undo has run while the list held a goal that was created     *)
(* and stepped in this session, and that goal stands unchanged at the front *)
(* of three goals.                                                          *)
C21_Witness ==
    /\ lastToggledRef = Null
    /\ undoTimerRef # NoTimer
    /\ Len(goals) = 3
    /\ goals[1].createdAt > 1
    /\ goals[1].completedSteps = 1
    /\ goals[2].completed

(* C22: undo is one-shot.  An undo empties the slot and closes the          *)
(* notification, and while the slot is empty (until the next toggle) an     *)
(* undo invocation is no step: it leaves the goal list, the notification    *)
(* and the slot as they are.                                                *)
C22_UndoIsOneShot ==
    [][ /\ UndoStep => (lastToggledRef' = Null /\ ~undoOpen' /\ timers' = {})
        /\ lastToggledRef = Null => ~UndoStep
        /\ (lastToggledRef = Null /\ lastToggledRef' # Null)
              => \E i \in DOMAIN goals : ToggleStep(i)
      ]_vars

(* Reached: after an undo the slot is empty, the notification is closed,    *)
(* and the oldest goal has since been stepped up to its last step.          *)
C22_Witness ==
    /\ lastToggledRef = Null
    /\ undoTimerRef # NoTimer
    /\ ~undoOpen
    /\ Len(goals) = 2
    /\ goals[2].id = 1
    /\ goals[2].completedSteps = 2
    /\ ~goals[2].completed

(* C23: whenever the notification is open an undo target is remembered; a   *)
(* closed notification is opened by a toggle only; and an open notification *)
(* is eventually closed (by its countdown or by undo) unless a further      *)
(* toggle is made, that is, no behaviour keeps it open for ever from some   *)
(* point on while making no toggle after that point.                        *)
C23_NotificationCloses ==
    /\ [](undoOpen => lastToggledRef # Null)
    /\ [][(~undoOpen /\ undoOpen') => ToggleMade]_vars
    /\ ([]<>(~undoOpen) \/ []<><<ToggleMade>>_vars)

(* Reached: the countdown has closed the notification of a toggle that      *)
(* completed a goal; the record is still in the slot.                       *)
C23_Witness ==
    /\ ~undoOpen
    /\ timers = {}
    /\ lastToggledRef # Null
    /\ \E k \in DOMAIN goals : goals[k].id = lastToggledRef.id /\ goals[k].completed

(* C24 as stated: whenever the application starts, the goal list is the     *)
(* list loaded from the store and the stored value is its serialisation; a  *)
(* stored value that is unparseable or no array is replaced by the empty    *)
(* array, and a stored array keeps its content.                             *)
C24_StartupWritesBack ==
    [][ \A accepted \in BOOLEAN : Reload(accepted) => StartedFromStore ]_vars

(* C24, amended: the same, for a start whose write-back the store accepts.  *)
C24_StartupWritesBackWhenAccepted ==
    [][ Reload(TRUE) => StartedFromStore ]_vars

(* Reached: the application was started again after a goal had been         *)
(* completed, and the store holds the serialisation of the loaded list.     *)
C24_Witness ==
    /\ undoTimerRef = NoTimer
    /\ storage = JSONstringify(goals)
    /\ \E k \in DOMAIN goals : goals[k].completed /\ goals[k].completedAt = 2
====
